---- MODULE Spec2Model ----
(***************************************************************************)
(* A model of the TIFF/ARW reader: the byte-order-aware ByteStream         *)
(* (src/src/byte_stream.rs) and, on top of it, open_raw_file, TiffHeader,  *)
(* IFE (tag entry) and IFD (directory walker) of src/src/main.rs.          *)
(*                                                                         *)
(* The source is a File: an immutable sequence of bytes with a cursor.     *)
(* Byte i of the file (0-based, as the code's offsets are) is file[i+1].   *)
(* All bytes of the modelled files are below 128, so that every 32-bit     *)
(* value read from them stays inside TLC's integers.                       *)
(***************************************************************************)
EXTENDS Integers, Sequences, FiniteSets, TLC

VARIABLES
  file,     \* the bytes of the file behind the reader
  live,     \* TRUE once a ByteStream has been constructed over the file
  order,    \* ByteStream.order
  pos,      \* the cursor of ByteStream.reader
  given,    \* history: the order last given to ByteStream::new or set_order
  last,     \* the last completed call: [op, arg, ok, val]
  phase,    \* "idle", or where the running IFD::parse is: "body" / "return"
  stack,    \* IFD::parse activations waiting for their recursive call
  visited,  \* history: the cursor positions at which IFD::parse was entered
  ret       \* the value being returned through the IFD::parse activations

vars == <<file, live, order, pos, given, last, phase, stack, visited, ret>>

\* ------------------------------------------------------------------ bounds
MaxDepth == 5     \* IFD::parse activations the model follows
MaxBuf == 1       \* longest buffer handed to read_bytes
MaxPast == 2      \* relative seeks are issued up to this far past the end

\* --------------------------------------------------------- program constants
IntelByte == 73      \* 0x49, 'I'
MotorolaByte == 77   \* 0x4D, 'M'
TiffMagic == 42
AsciiType == 2
ShortType == 3
LongType == 4
RationalType == 5

ByteOrder == {"LittleEndian", "BigEndian"}

Max(a, b) == IF a >= b THEN a ELSE b

\* ------------------------------------------------------- integers and bytes
\* from_le_bytes / from_be_bytes, as omnom's read_le / read_be apply them
RECURSIVE FromLE(_)
FromLE(bytes) ==
  IF bytes = <<>> THEN 0 ELSE Head(bytes) + 256 * FromLE(Tail(bytes))

RECURSIVE FromBE(_)
FromBE(bytes) ==
  IF bytes = <<>> THEN 0
  ELSE bytes[Len(bytes)] + 256 * FromBE(SubSeq(bytes, 1, Len(bytes) - 1))

DecodeSwapped(bytes, ord) ==
  IF ord = "LittleEndian" THEN FromBE(bytes) ELSE FromLE(bytes)

\* the match of read_with_order: which of read_le / read_be decodes
Decode(bytes, ord) ==
  IF ord = "LittleEndian" THEN FromLE(bytes) ELSE FromBE(bytes)

\* to_le_bytes / to_be_bytes of a w-byte unsigned value (the inverse direction,
\* used to lay out files and to state what a stored value is)
RECURSIVE ToLE(_, _)
ToLE(v, w) == IF w = 0 THEN <<>> ELSE <<v % 256>> \o ToLE(v \div 256, w - 1)

RECURSIVE ToBE(_, _)
ToBE(v, w) == IF w = 0 THEN <<>> ELSE ToBE(v \div 256, w - 1) \o <<v % 256>>

Encode(v, w, ord) == IF ord = "LittleEndian" THEN ToLE(v, w) ELSE ToBE(v, w)

\* ----------------------------------------------------------- the reader (File)
Ok(v, p) == [ok |-> TRUE, val |-> v, pos |-> p]
Err(e, p) == [ok |-> FALSE, val |-> e, pos |-> p]

\* Read::read_exact on a File with its cursor at p: n bytes, or UnexpectedEof
\* with the cursor left at the end of the file (what was there has been consumed)
ReadExact(f, p, n) ==
  IF n = 0 THEN Ok(<<>>, p)
  ELSE IF p + n <= Len(f) THEN Ok(SubSeq(f, p + 1, p + n), p + n)
  ELSE Err("io", Max(p, Len(f)))

\* Seek::seek on a File: the new position, or an error (and no move) when it
\* would be negative; a position past the end is accepted
SeekTarget(f, p, from) ==
  CASE from[1] = "Start" -> from[2]
    [] from[1] = "Current" -> p + from[2]
    [] OTHER -> Len(f) + from[2]

FileSeek(f, p, from) ==
  IF SeekTarget(f, p, from) < 0 THEN Err("io", p)
  ELSE Ok(SeekTarget(f, p, from), SeekTarget(f, p, from))

\* The `?` operator: the result r of a call is computed once; an error is
\* returned as it is, and otherwise the rest of the function, K, goes on from it.
Try(r, K(_)) == CHOOSE y \in {IF x.ok THEN K(x) ELSE x : x \in {r}} : TRUE

\* ------------------------------------------------------------------ ByteStream
\* read_with_order::<B>(order), B of w bytes
ReadWithOrder(f, p, w, ord) ==
  Try(ReadExact(f, p, w), LAMBDA bytes : Ok(Decode(bytes.val, ord), bytes.pos))


\* read::<B>(): read_with_order with the stored order
Read(f, p, w, stored) == ReadWithOrder(f, p, w, stored)

OverrideStores(stored, ord) == ord

\* ByteStream.order after read_with_order(ord): the call assigns nothing to it
OrderAfterOverride(stored, ord) == stored

\* ------------------------------------------------------------- open_raw_file
MarkerEither(b1, b2) ==
  IF (b1 = IntelByte) \/ (b2 = IntelByte) THEN "LittleEndian"
  ELSE IF (b1 = MotorolaByte) \/ (b2 = MotorolaByte) THEN "BigEndian"
  ELSE "none"

\* intel_order / motorola_order
MarkerOrder(b1, b2) ==
  IF (b1 = IntelByte) /\ (b2 = IntelByte) THEN "LittleEndian"
  ELSE IF (b1 = MotorolaByte) /\ (b2 = MotorolaByte) THEN "BigEndian"
  ELSE "none"

\* a freshly opened File has its cursor at 0; val is the order of the new stream
OpenRawFile(f) ==
  Try(ReadWithOrder(f, 0, 1, "LittleEndian"), LAMBDA byte_1 :
  Try(ReadWithOrder(f, byte_1.pos, 1, "LittleEndian"), LAMBDA byte_2 :
    IF MarkerOrder(byte_1.val, byte_2.val) = "none"
    THEN Err("not a valid file", byte_2.pos)
    ELSE Ok(MarkerOrder(byte_1.val, byte_2.val), byte_2.pos)))

\* ---------------------------------------------------------- TiffHeader::parse
MagicAny(magic) == TRUE

MagicOk(magic) == magic = TiffMagic

TiffHeaderParse(f, p, ord) ==
  Try(Read(f, p, 2, ord), LAMBDA magic :
  Try(Read(f, magic.pos, 4, ord), LAMBDA ifd_start :
    IF ~MagicOk(magic.val) THEN Err("not a TIFF file", ifd_start.pos)
    ELSE Ok([magic |-> magic.val, ifd_start |-> ifd_start.val], ifd_start.pos)))

\* ------------------------------------------------------------------------ IFE
IFEParseTypeFirst(f, p, ord) ==
  Try(Read(f, p, 2, ord), LAMBDA entry_type :
  Try(Read(f, entry_type.pos, 2, ord), LAMBDA tag :
  Try(Read(f, tag.pos, 4, ord), LAMBDA count :
  Try(Read(f, count.pos, 4, ord), LAMBDA offset :
    Ok([tag |-> tag.val, entry_type |-> entry_type.val,
        count |-> count.val, offset |-> offset.val], offset.pos)))))

\* IFE::parse
IFEParse(f, p, ord) ==
  Try(Read(f, p, 2, ord), LAMBDA tag :
  Try(Read(f, tag.pos, 2, ord), LAMBDA entry_type :
  Try(Read(f, entry_type.pos, 4, ord), LAMBDA count :
  Try(Read(f, count.pos, 4, ord), LAMBDA offset :
    Ok([tag |-> tag.val, entry_type |-> entry_type.val,
        count |-> count.val, offset |-> offset.val], offset.pos)))))

SeekToCurrent(e, f, p) == FileSeek(f, p, <<"Current", e.offset>>)

\* IFE::seek_to
SeekTo(e, f, p) == FileSeek(f, p, <<"Start", e.offset>>)

\* IFE::read_as_bytes (count always fits usize on the 32- and 64-bit targets)
ReadAsBytes(e, f, p) ==
  Try(SeekTo(e, f, p), LAMBDA s : ReadExact(f, s.pos, e.count))

TypeAny(e, code) == TRUE

\* the guard of each typed accessor: entry_type against the required code
TypeMatches(e, code) == e.entry_type = code

\* IFE::to_short
ToShort(e, f, p, ord) ==
  IF ~TypeMatches(e, ShortType) THEN Err("not short", p)
  ELSE Try(SeekTo(e, f, p), LAMBDA s : Read(f, s.pos, 2, ord))

\* IFE::to_long
ToLong(e, f, p, ord) ==
  IF ~TypeMatches(e, LongType) THEN Err("not long", p)
  ELSE Try(SeekTo(e, f, p), LAMBDA s : Read(f, s.pos, 4, ord))

RECURSIVE GCD(_, _)
GCD(a, b) == IF b = 0 THEN a ELSE GCD(b, a % b)

\* numerator as f64 / denominator as f64. The quotient is kept as the fraction
\* in lowest terms; <<1, 0>> stands for infinity and <<0, 0>> for NaN.
Divide(n, d) ==
  IF GCD(n, d) = 0 THEN <<0, 0>> ELSE <<n \div GCD(n, d), d \div GCD(n, d)>>

\* IFE::to_rational
ToRational(e, f, p, ord) ==
  IF ~TypeMatches(e, RationalType) THEN Err("not rational", p) ELSE
  Try(SeekTo(e, f, p), LAMBDA s :
  Try(Read(f, s.pos, 4, ord), LAMBDA numerator :
  Try(Read(f, numerator.pos, 4, ord), LAMBDA denominator :
    Ok(Divide(numerator.val, denominator.val), denominator.pos))))

\* std::str::from_utf8: well-formed UTF-8 (a byte below 0x80, or a lead byte
\* followed by the continuation bytes its range asks for)
IsCont(bytes, i, lo, hi) ==
  /\ i <= Len(bytes)
  /\ bytes[i] >= lo
  /\ bytes[i] <= hi

RECURSIVE Utf8Valid(_)
Utf8Valid(bytes) ==
  IF bytes = <<>> THEN TRUE ELSE
  LET b == bytes[1]
      n == IF b < 128 THEN 1
           ELSE IF b >= 194 /\ b <= 223 /\ IsCont(bytes, 2, 128, 191) THEN 2
           ELSE IF /\ b >= 224 /\ b <= 239
                   /\ IsCont(bytes, 2, IF b = 224 THEN 160 ELSE 128,
                                       IF b = 237 THEN 159 ELSE 191)
                   /\ IsCont(bytes, 3, 128, 191) THEN 3
           ELSE IF /\ b >= 240 /\ b <= 244
                   /\ IsCont(bytes, 2, IF b = 240 THEN 144 ELSE 128,
                                       IF b = 244 THEN 143 ELSE 191)
                   /\ IsCont(bytes, 3, 128, 191)
                   /\ IsCont(bytes, 4, 128, 191) THEN 4
           ELSE 0
  IN IF n = 0 THEN FALSE ELSE Utf8Valid(SubSeq(bytes, n + 1, Len(bytes)))

\* IFE::to_ascii; the String is kept as its bytes
ToAscii(e, f, p) ==
  IF ~TypeMatches(e, AsciiType) THEN Err("not ascii", p) ELSE
  Try(ReadAsBytes(e, f, p), LAMBDA buffer :
    IF ~Utf8Valid(buffer.val) THEN Err("utf8", buffer.pos) ELSE buffer)


\* ------------------------------------------------------------------------ IFD
\* the loop `for i in 0..count { result.push(IFE::parse(stream)?) }`
RECURSIVE ParseEntries(_, _, _, _, _)
ParseEntries(f, p, ord, todo, result) ==
  IF todo = 0 THEN Ok(result, p) ELSE
  Try(IFEParse(f, p, ord), LAMBDA e :
    ParseEntries(f, e.pos, ord, todo - 1, Append(result, e.val)))

\* `if next == 0`: the chain ends here
ChainEnds(next) == next = 0

\* one activation of IFD::parse up to its decision on `next`:
\* [ok, val |-> [read_ifd, next], pos], or the error of the read that failed
IFDRead(f, p, ord) ==
  Try(Read(f, p, 2, ord), LAMBDA count :
  Try(ParseEntries(f, count.pos, ord, count.val, <<>>), LAMBDA result :
  Try(Read(f, result.pos, 4, ord), LAMBDA next :
    Ok([read_ifd |-> [entries |-> result.val], next |-> next.val], next.pos))))

\* a BR<Vec<IFD>> on its way back through the activations
Returned(dirs) == [ok |-> TRUE, err |-> "", dirs |-> dirs]
Failed(e) == [ok |-> FALSE, err |-> e, dirs |-> <<>>]

AfterRecursionPrepend(r, read_ifd) ==
  IF ~r.ok THEN r ELSE Returned(<<read_ifd>> \o r.dirs)

AfterRecursionSalvage(r, read_ifd) ==
  IF ~r.ok THEN Returned(<<read_ifd>>) ELSE Returned(Append(r.dirs, read_ifd))

\* `let mut remaining = IFD::parse(stream)?; remaining.push(read_ifd); Ok(remaining)`
AfterRecursion(r, read_ifd) ==
  IF ~r.ok THEN r ELSE Returned(Append(r.dirs, read_ifd))

NoFrame(frames, read_ifd) == frames

\* the activation that waits for the recursive call keeps its read_ifd
PushFrame(frames, read_ifd) == Append(frames, [read_ifd |-> read_ifd])

\* ---------------------------------------------------------------- the files
\* Files are laid out as the format of the reader asks: marker, magic, offset of
\* the first directory, eight bytes of tag data, then the directories.
EntryBytes(e, enc) ==
  Encode(e.tag, 2, enc) \o Encode(e.entry_type, 2, enc)
    \o Encode(e.count, 4, enc) \o Encode(e.offset, 4, enc)

RECURSIVE EntriesBytes(_, _)
EntriesBytes(es, enc) ==
  IF es = <<>> THEN <<>> ELSE EntryBytes(Head(es), enc) \o EntriesBytes(Tail(es), enc)

DirBytes(entries, next, enc) ==
  Encode(Len(entries), 2, enc) \o EntriesBytes(entries, enc) \o Encode(next, 4, enc)

TagData == <<65, 66, 67, 68, 69, 0, 7, 1>>    \* "ABCDE\0", then 7, 1
DataOff == 2 + 2 + 4
DirsOff == DataOff + Len(TagData)

Dir(entries, next) == [entries |-> entries, next |-> next]

DirSize(d) == 2 + 12 * Len(d.entries) + 4

RECURSIVE DirOff(_, _)
DirOff(layout, i) ==
  IF i = 1 THEN DirsOff ELSE DirOff(layout, i - 1) + DirSize(layout[i - 1])

\* a directory's next: 0 ends the chain, i names the directory i of the layout,
\* Len(layout) + 1 an offset past the end of the file
NextOff(layout, n) ==
  IF n = 0 THEN 0 ELSE DirOff(layout, n) + (IF n > Len(layout) THEN 4 ELSE 0)

RECURSIVE DirsBytes(_, _, _)
DirsBytes(layout, i, enc) ==
  IF i > Len(layout) THEN <<>>
  ELSE DirBytes(layout[i].entries, NextOff(layout, layout[i].next), enc)
         \o DirsBytes(layout, i + 1, enc)

Marker(enc) ==
  IF enc = "LittleEndian" THEN <<IntelByte, IntelByte>>
  ELSE <<MotorolaByte, MotorolaByte>>

MkFile(marker, magic, layout, enc, cut) ==
  LET whole == marker \o Encode(magic, 2, enc) \o Encode(DirsOff, 4, enc)
                 \o TagData \o DirsBytes(layout, 1, enc)
  IN SubSeq(whole, 1, Len(whole) - cut)

Entry(tag, type, count, offset) ==
  [tag |-> tag, entry_type |-> type, count |-> count, offset |-> offset]

eAscii == Entry(1, AsciiType, 6, DataOff)
eShort == Entry(2, ShortType, 1, DataOff + 6)
eLong == Entry(3, LongType, 1, DataOff)
eRational == Entry(4, RationalType, 1, DataOff)
eOther == Entry(5, 7, 1, DataOff)

LayoutsLE == {
  <<Dir(<<>>, 0)>>,
  <<Dir(<<eLong>>, 2), Dir(<<eRational>>, 0)>>,
  <<Dir(<<eShort>>, 1)>>,
  <<Dir(<<eAscii>>, 2), Dir(<<>>, 3)>> }

LayoutsBE == {
  <<Dir(<<eAscii, eShort>>, 0)>>,
  <<Dir(<<eShort>>, 3), Dir(<<>>, 0), Dir(<<eOther>>, 2)>>,
  <<Dir(<<>>, 2), Dir(<<eLong>>, 1)>>,
  <<Dir(<<>>, 2), Dir(<<>>, 3), Dir(<<>>, 2)>> }

Cuts == {1, 5}

Files ==
  {MkFile(Marker("LittleEndian"), TiffMagic, layout, "LittleEndian", 0) :
     layout \in LayoutsLE}
  \cup {MkFile(Marker("BigEndian"), TiffMagic, layout, "BigEndian", 0) :
          layout \in LayoutsBE}
  \cup {MkFile(Marker("BigEndian"), TiffMagic,
               <<Dir(<<eLong>>, 2), Dir(<<eRational>>, 0)>>, "BigEndian", cut) :
          cut \in Cuts}
  \cup {MkFile(marker, TiffMagic, <<Dir(<<>>, 0)>>, "LittleEndian", 0) :
          marker \in {<<IntelByte, MotorolaByte>>, <<MotorolaByte, IntelByte>>,
                      <<0, IntelByte>>}}
  \cup {MkFile(Marker("BigEndian"), TiffMagic + 1, <<Dir(<<>>, 0)>>, "BigEndian", 0),
        <<>>, <<IntelByte>>}

\* the entries the accessors are called on, and the positions seek is given
EntryArgs ==
  {Entry(9, type, 6, DataOff) :
     type \in {AsciiType, ShortType, LongType, RationalType, 7}}
  \cup {Entry(9, ShortType, 1, DataOff + 6), Entry(9, LongType, 1, DataOff + 4)}

SeekArgs ==
  {<<"Start", 0>>, <<"Start", DataOff>>, <<"Start", DirsOff>>,
   <<"Current", -4>>, <<"End", -6>>, <<"End", 2>>}

Widths == {2, 4}

\* ---------------------------------------------------------------- the machine
\* The record of a call: its name, its arguments (entry, w, ord, from), whether
\* it returned Ok, and what it returned: the error, or the value in the field
\* of its type (num: an integer, bytes, or numerator and denominator; entry;
\* hdr; dirs), with `at` the positions IFD::parse was entered at.
NoCall ==
  [op |-> "none", ok |-> TRUE, err |-> "", entry |-> Entry(0, 0, 0, 0), w |-> 0,
   ord |-> "none", from |-> <<"none", 0>>, num |-> <<>>,
   hdr |-> [magic |-> 0, ifd_start |-> 0], dirs |-> <<>>, at |-> <<>>]

Outcome(call, r, kind) ==
  IF ~r.ok THEN [call EXCEPT !.ok = FALSE, !.err = r.val]
  ELSE CASE kind = "int" -> [call EXCEPT !.num = <<r.val>>]
         [] kind = "ints" -> [call EXCEPT !.num = r.val]
         [] kind = "entry" -> [call EXCEPT !.entry = r.val]
         [] kind = "hdr" -> [call EXCEPT !.hdr = r.val]
         [] OTHER -> call

Init ==
  /\ file \in Files
  /\ live = FALSE
  /\ order = "none"
  /\ pos = 0
  /\ given = "none"
  /\ last = NoCall
  /\ phase = "idle"
  /\ stack = <<>>
  /\ visited = <<>>
  /\ ret = Returned(<<>>)

Walk == <<phase, stack, visited, ret>>

\* open_raw_file: the stream exists only if the marker was accepted
CallOpenRawFile ==
  \E r \in {OpenRawFile(file)} :
  /\ ~live
  /\ live' = r.ok
  /\ order' = IF r.ok THEN r.val ELSE order
  /\ given' = IF r.ok THEN r.val ELSE given
  /\ pos' = IF r.ok THEN r.pos ELSE 0
  /\ last' = Outcome([NoCall EXCEPT !.op = "open_raw_file"], r, "unit")
  /\ UNCHANGED <<file, Walk>>

\* ByteStream::new over the freshly opened file
New(ord) ==
  /\ ~live
  /\ live' = TRUE
  /\ order' = ord
  /\ given' = ord
  /\ pos' = 0
  /\ last' = [NoCall EXCEPT !.op = "new", !.ord = ord]
  /\ UNCHANGED <<file, Walk>>

Idle == live /\ phase = "idle"

SetOrder(ord) ==
  /\ Idle
  /\ order' = ord
  /\ given' = ord
  /\ last' = [NoCall EXCEPT !.op = "set_order", !.ord = ord]
  /\ UNCHANGED <<file, live, pos, Walk>>

\* a call that only moves the cursor and returns its result
Completes(call, result, kind) ==
  /\ Idle
  /\ \E r \in {result} :
       /\ pos' = r.pos
       /\ last' = Outcome(call, r, kind)
  /\ UNCHANGED <<file, live, order, given, Walk>>

CallReadWithOrder(w, ord) ==
  /\ Idle
  /\ \E r \in {ReadWithOrder(file, pos, w, ord)} :
       /\ pos' = r.pos
       /\ last' = Outcome([NoCall EXCEPT !.op = "read_with_order", !.w = w,
                                          !.ord = ord], r, "int")
  /\ order' = OrderAfterOverride(order, ord)
  /\ UNCHANGED <<file, live, given, Walk>>

CallRead(w) ==
  Completes([NoCall EXCEPT !.op = "read", !.w = w], Read(file, pos, w, order), "int")

CallReadBytes(n) ==
  Completes([NoCall EXCEPT !.op = "read_bytes", !.w = n], ReadExact(file, pos, n), "ints")

CallSeek(from) ==
  /\ (from[1] = "Current") => (pos <= Len(file) + MaxPast)
  /\ Completes([NoCall EXCEPT !.op = "seek", !.from = from],
               FileSeek(file, pos, from), "int")

CallTiffHeaderParse ==
  Completes([NoCall EXCEPT !.op = "TiffHeader::parse"],
            TiffHeaderParse(file, pos, order), "hdr")

CallIFEParse ==
  Completes([NoCall EXCEPT !.op = "IFE::parse"], IFEParse(file, pos, order), "entry")

CallReadAsBytes(e) ==
  Completes([NoCall EXCEPT !.op = "read_as_bytes", !.entry = e],
            ReadAsBytes(e, file, pos), "ints")

CallToShort(e) ==
  Completes([NoCall EXCEPT !.op = "to_short", !.entry = e],
            ToShort(e, file, pos, order), "int")

CallToLong(e) ==
  Completes([NoCall EXCEPT !.op = "to_long", !.entry = e],
            ToLong(e, file, pos, order), "int")

CallToRational(e) ==
  Completes([NoCall EXCEPT !.op = "to_rational", !.entry = e],
            ToRational(e, file, pos, order), "ints")

CallToAscii(e) ==
  Completes([NoCall EXCEPT !.op = "to_ascii", !.entry = e],
            ToAscii(e, file, pos), "ints")

\* IFD::parse is entered from outside
IFDParseCall ==
  /\ Idle
  /\ phase' = "body"
  /\ stack' = <<>>
  /\ visited' = <<pos>>
  /\ ret' = Returned(<<>>)
  /\ last' = NoCall
  /\ UNCHANGED <<file, live, order, pos, given>>

\* the body of the innermost activation: it fails, returns its one directory,
\* or seeks to `next` and enters IFD::parse again
IFDParseBody ==
  /\ phase = "body"
  /\ Len(stack) < MaxDepth
  /\ \E r \in {IFDRead(file, pos, order)} :
     IF ~r.ok
     THEN /\ pos' = r.pos
          /\ ret' = Failed(r.val)
          /\ phase' = "return"
          /\ UNCHANGED <<stack, visited>>
     ELSE IF ChainEnds(r.val.next)
     THEN /\ pos' = r.pos
          /\ ret' = Returned(<<r.val.read_ifd>>)
          /\ phase' = "return"
          /\ UNCHANGED <<stack, visited>>
     ELSE /\ pos' = FileSeek(file, r.pos, <<"Start", r.val.next>>).pos
          /\ stack' = PushFrame(stack, r.val.read_ifd)
          /\ visited' = Append(visited, pos')
          /\ UNCHANGED <<phase, ret>>
  /\ UNCHANGED <<file, live, order, given, last>>

\* an activation gets the result of its recursive call, or the outermost one
\* returns to the caller
IFDParseReturn ==
  /\ phase = "return"
  /\ IF stack = <<>>
     THEN /\ phase' = "idle"
          /\ last' = [NoCall EXCEPT !.op = "IFD::parse", !.at = visited, !.ok = ret.ok,
                                    !.err = ret.err, !.dirs = ret.dirs]
          /\ visited' = <<>>
          /\ ret' = Returned(<<>>)
          /\ UNCHANGED stack
     ELSE /\ ret' = AfterRecursion(ret, stack[Len(stack)].read_ifd)
          /\ stack' = SubSeq(stack, 1, Len(stack) - 1)
          /\ UNCHANGED <<phase, visited, last>>
  /\ UNCHANGED <<file, live, order, pos, given>>

Next ==
  \/ CallOpenRawFile
  \/ \E ord \in ByteOrder : New(ord)
  \/ \E ord \in ByteOrder : SetOrder(ord)
  \/ \E w \in Widths : CallRead(w)
  \/ \E w \in Widths, ord \in ByteOrder : CallReadWithOrder(w, ord)
  \/ \E n \in 0..MaxBuf : CallReadBytes(n)
  \/ \E from \in SeekArgs : CallSeek(from)
  \/ CallTiffHeaderParse
  \/ CallIFEParse
  \/ \E e \in EntryArgs : CallReadAsBytes(e)
  \/ \E e \in EntryArgs : CallToShort(e)
  \/ \E e \in EntryArgs : CallToLong(e)
  \/ \E e \in EntryArgs : CallToRational(e)
  \/ \E e \in EntryArgs : CallToAscii(e)
  \/ IFDParseCall
  \/ IFDParseBody
  \/ IFDParseReturn

Spec == Init /\ [][Next]_vars

\* the call in progress goes on: the code is one sequential thread (each step
\* of the walk changes phase or stack)
FairSpec ==
  Spec /\ WF_<<phase, stack>>(IFDParseBody) /\ WF_<<phase, stack>>(IFDParseReturn)

\* ---------------------------------------------------- what the file holds
\* These definitions say what is stored in the file at an absolute offset,
\* byte by byte; they owe nothing to the reader's cursor.
ByteAt(off) == file[off + 1]

Readable(off, n) == off + n <= Len(file)

U16At(off, ord) ==
  IF ord = "LittleEndian" THEN ByteAt(off) + 256 * ByteAt(off + 1)
  ELSE 256 * ByteAt(off) + ByteAt(off + 1)

U32At(off, ord) ==
  IF ord = "LittleEndian"
  THEN ByteAt(off) + 256 * ByteAt(off + 1) + 65536 * ByteAt(off + 2)
         + 16777216 * ByteAt(off + 3)
  ELSE 16777216 * ByteAt(off) + 65536 * ByteAt(off + 1) + 256 * ByteAt(off + 2)
         + ByteAt(off + 3)

EntryAt(off, ord) ==
  [tag |-> U16At(off, ord), entry_type |-> U16At(off + 2, ord),
   count |-> U32At(off + 4, ord), offset |-> U32At(off + 8, ord)]

\* the directory at off: its entry count, where its next-offset lies, whether
\* all of it is inside the file, and its content
CountAt(off, ord) == U16At(off, ord)

NextPlace(off, ord) == off + 2 + 12 * CountAt(off, ord)

DirReadable(off, ord) == Readable(off, 2) /\ Readable(NextPlace(off, ord), 4)

DirAt(off, ord) ==
  [entries |-> [i \in 1..CountAt(off, ord) |-> EntryAt(off + 2 + 12 * (i - 1), ord)]]

SeqRange(q) == {q[i] : i \in 1..Len(q)}

\* the chain of next-offsets from off: the offsets it goes through and how it
\* ends: at a next-offset of 0 ("ends"), at a directory that is not all in the
\* file ("fails"), or at a next-offset already gone through ("cycles")
RECURSIVE ChainFrom(_, _, _)
ChainFrom(off, ord, seen) ==
  IF ~DirReadable(off, ord) THEN [fate |-> "fails", offs |-> Append(seen, off)]
  ELSE IF U32At(NextPlace(off, ord), ord) = 0
  THEN [fate |-> "ends", offs |-> Append(seen, off)]
  ELSE IF U32At(NextPlace(off, ord), ord) \in SeqRange(Append(seen, off))
  THEN [fate |-> "cycles", offs |-> Append(seen, off)]
  ELSE ChainFrom(U32At(NextPlace(off, ord), ord), ord, Append(seen, off))

Chain(off) == ChainFrom(off, order, <<>>)

Reverse(q) == [i \in 1..Len(q) |-> q[Len(q) + 1 - i]]

ParseDone == phase = "idle" /\ last.op = "IFD::parse"

\* the position at which the IFD::parse that has just returned was called
ParseStart == last.at[1]

\* ------------------------------------------------------------------- claims

\* C1: when the chain of next-offsets from the position IFD::parse is called
\* at goes through k fully readable directories D1..Dk and ends at a
\* next-offset of 0, the call returns exactly k directories, Dk first and D1 last.
C1_ReverseChainOrder ==
  (ParseDone /\ Chain(ParseStart).fate = "ends") =>
     /\ last.ok
     /\ Len(last.dirs) = Len(Chain(ParseStart).offs)
     /\ last.dirs = Reverse([i \in 1..Len(Chain(ParseStart).offs) |->
                              DirAt(Chain(ParseStart).offs[i], order)])

\* a returned chain of three directories, no two alike
C1_Witness ==
  /\ ParseDone
  /\ last.ok
  /\ Chain(ParseStart).fate = "ends"
  /\ Len(last.dirs) = 3
  /\ last.dirs[1] # last.dirs[2]
  /\ last.dirs[2] # last.dirs[3]
  /\ last.dirs[1] # last.dirs[3]
  /\ last.dirs[3] = DirAt(ParseStart, order)

AccessorType(op) ==
  CASE op = "to_ascii" -> AsciiType
    [] op = "to_short" -> ShortType
    [] op = "to_long" -> LongType
    [] op = "to_rational" -> RationalType

TypedAccessors == {"to_ascii", "to_short", "to_long", "to_rational"}

TypeErrors == {"not ascii", "not short", "not long", "not rational"}

\* C2: a typed accessor called on an entry of another type fails with its
\* type-mismatch error, returns no value, and leaves the cursor and the stored
\* order as they were.
C2_MismatchLeavesReader ==
  [][(/\ phase' = "idle"
      /\ last'.op \in TypedAccessors
      /\ last'.entry.entry_type # AccessorType(last'.op))
     => (/\ ~last'.ok
         /\ last'.err \in TypeErrors
         /\ last'.num = <<>>
         /\ pos' = pos
         /\ order' = order)]_vars

\* to_short on an entry of type 4 whose offset is not where the cursor stands
C2_Witness ==
  /\ last.op = "to_short"
  /\ last.entry.entry_type = LongType
  /\ ~last.ok
  /\ pos # last.entry.offset
  /\ pos # last.entry.offset + 2

\* C3 as stated: a header is returned only for a magic of 42, and any other
\* magic value gives the format error. (It does not hold: the magic is compared
\* after ifd_start has been read, so a file that ends inside ifd_start gives
\* the error of that read whatever the magic is.)
C3_AnyOtherMagicIsFormatError ==
  [][(phase' = "idle" /\ last'.op = "TiffHeader::parse")
     => /\ last'.ok =>
             /\ Readable(pos, 6)
             /\ last'.hdr = [magic |-> TiffMagic, ifd_start |-> U32At(pos + 2, order)]
             /\ U16At(pos, order) = TiffMagic
        /\ (Readable(pos, 2) /\ U16At(pos, order) # TiffMagic) =>
             (~last'.ok /\ last'.err = "not a TIFF file")]_vars

\* C3, amended: TiffHeader::parse returns a header exactly when the six bytes at
\* the cursor are in the file and the 16-bit value, in the stored order, is 42;
\* the header holds that magic and the 32-bit value after it. When the six
\* bytes are there, any other magic gives the format error and no header; when
\* they are not, the call fails with the error of the read, and no header.
C3_HeaderNeedsMagic ==
  [][(phase' = "idle" /\ last'.op = "TiffHeader::parse")
     => IF ~Readable(pos, 6)
        THEN ~last'.ok /\ last'.err = "io" /\ last'.hdr = NoCall.hdr
        ELSE IF U16At(pos, order) = TiffMagic
        THEN /\ last'.ok
             /\ last'.hdr = [magic |-> TiffMagic, ifd_start |-> U32At(pos + 2, order)]
        ELSE ~last'.ok /\ last'.err = "not a TIFF file" /\ last'.hdr = NoCall.hdr]_vars

\* the magic is there but read in the other order: no header
C3_Witness ==
  /\ last.op = "TiffHeader::parse"
  /\ ~last.ok
  /\ last.err = "not a TIFF file"
  /\ pos = 8
  /\ U16At(2, IF order = "LittleEndian" THEN "BigEndian" ELSE "LittleEndian") = TiffMagic

\* C4: open_raw_file gives a LittleEndian reader for 0x49 0x49, a BigEndian
\* reader for 0x4D 0x4D, and fails, with no reader, for any other two bytes.
C4_OrderDetection ==
  (last.op = "open_raw_file") =>
     IF Readable(0, 2) /\ ByteAt(0) = 73 /\ ByteAt(1) = 73
     THEN last.ok /\ live /\ order = "LittleEndian"
     ELSE IF Readable(0, 2) /\ ByteAt(0) = 77 /\ ByteAt(1) = 77
     THEN last.ok /\ live /\ order = "BigEndian"
     ELSE ~last.ok /\ ~live

\* a mixed pair is refused
C4_Witness ==
  /\ last.op = "open_raw_file"
  /\ ~last.ok
  /\ ~live
  /\ Readable(0, 2)
  /\ {ByteAt(0), ByteAt(1)} = {73, 77}

\* C5: when a directory of the chain is not all inside the file (its count,
\* an entry or its next-offset cannot be read, or it lies past the end),
\* IFD::parse returns the error and none of the directories parsed before it.
C5_FailureAbortsWalk ==
  (ParseDone /\ Chain(ParseStart).fate = "fails") =>
     (~last.ok /\ last.err = "io" /\ last.dirs = <<>>)

\* a next-offset past the end of the file, met after a directory was parsed
C5_Witness ==
  /\ ParseDone
  /\ ~last.ok
  /\ Chain(ParseStart).fate = "fails"
  /\ Len(Chain(ParseStart).offs) >= 2
  /\ Chain(ParseStart).offs[Len(Chain(ParseStart).offs)] > Len(file)
  /\ DirAt(ParseStart, order).entries # <<>>

\* C6: to_short / to_long succeed exactly when the entry has their type and
\* the value's bytes are in the file at `offset`, and the value returned is the
\* one those bytes encode in the stored order; to_rational divides the 32-bit
\* value at `offset` by the one at `offset` + 4.
C6_RoundTrip ==
  /\ (last.op = "to_short" /\ last.entry.entry_type = ShortType) =>
        /\ last.ok = Readable(last.entry.offset, 2)
        /\ last.ok =>
             SubSeq(file, last.entry.offset + 1, last.entry.offset + 2)
               = Encode(last.num[1], 2, order)
  /\ (last.op = "to_long" /\ last.entry.entry_type = LongType) =>
        /\ last.ok = Readable(last.entry.offset, 4)
        /\ last.ok =>
             SubSeq(file, last.entry.offset + 1, last.entry.offset + 4)
               = Encode(last.num[1], 4, order)
  /\ (last.op = "to_rational" /\ last.entry.entry_type = RationalType) =>
        /\ last.ok = Readable(last.entry.offset, 8)
        /\ last.ok =>
             last.num = Divide(U32At(last.entry.offset, order),
                               U32At(last.entry.offset + 4, order))

\* a short whose two bytes differ, which is not the entry's offset field
C6_Witness ==
  /\ last.op = "to_short"
  /\ last.ok
  /\ last.num[1] # last.entry.offset
  /\ ByteAt(last.entry.offset) # ByteAt(last.entry.offset + 1)
  /\ last.num[1] = U16At(last.entry.offset, order)

\* C7: a returned directory holds as many entries as the 16-bit count at its
\* start, entry i decoded from the 12 bytes at start + 2 + 12*i, and the
\* next-offset taken from start + 2 + 12*count: it is where the directory
\* returned before it starts, and 0 for the first one returned.
C7_DirectoryLayout ==
  (ParseDone /\ last.ok) =>
     /\ Len(last.dirs) = Len(last.at)
     /\ \A j \in 1..Len(last.dirs) :
          LET start == last.at[Len(last.at) + 1 - j]
              entries == last.dirs[j].entries
          IN /\ Readable(start, 2)
             /\ Len(entries) = U16At(start, order)
             /\ Readable(start + 2 + 12 * Len(entries), 4)
             /\ \A i \in 1..Len(entries) :
                  /\ entries[i].tag = U16At(start + 2 + 12 * (i - 1), order)
                  /\ entries[i].entry_type = U16At(start + 4 + 12 * (i - 1), order)
                  /\ entries[i].count = U32At(start + 6 + 12 * (i - 1), order)
                  /\ entries[i].offset = U32At(start + 10 + 12 * (i - 1), order)
             /\ U32At(start + 2 + 12 * Len(entries), order)
                  = IF j = 1 THEN 0 ELSE last.at[Len(last.at) + 2 - j]

\* one directory of two different entries
C7_Witness ==
  /\ ParseDone
  /\ last.ok
  /\ Len(last.dirs) = 1
  /\ Len(last.dirs[1].entries) = 2
  /\ last.dirs[1].entries[1].tag # last.dirs[1].entries[2].tag
  /\ last.dirs[1].entries[1].tag # last.dirs[1].entries[1].entry_type

\* C8: the stored order is the one last given to new or set_order, whatever
\* orders read_with_order was called with, and read() decodes with it.
C8_OverrideIsOneShot ==
  live =>
    /\ order = given
    /\ (last.op = "read" /\ last.ok) =>
          SubSeq(file, pos - last.w + 1, pos) = Encode(last.num[1], last.w, given)

\* a read_with_order in the order that is not the stored one
C8_Witness ==
  /\ live
  /\ last.op = "read_with_order"
  /\ last.ok
  /\ last.w = 4
  /\ last.ord # given
  /\ last.num[1] # U32At(pos - 4, given)

ValueSize(op, e) ==
  CASE op = "to_short" -> 2
    [] op = "to_long" -> 4
    [] op = "to_rational" -> 8
    [] OTHER -> e.count

\* C9: after a successful accessor the cursor is just past the value read.
C9_CursorPastValue ==
  (last.op \in TypedAccessors \cup {"read_as_bytes"} /\ last.ok) =>
     pos = last.entry.offset + ValueSize(last.op, last.entry)

\* to_rational has left the cursor eight bytes past the entry's offset
C9_Witness ==
  /\ last.op = "to_rational"
  /\ last.ok
  /\ pos = last.entry.offset + 8

HasRevisit(q) == \E i, j \in 1..Len(q) : i < j /\ q[i] = q[j]

\* C10: IFD::parse has no cycle guard. While it goes down the chain there is
\* one activation per directory entered; if the chain from the call position comes back to an
\* offset it went through, the call never returns; otherwise it returns.
C10_NoCycleGuard ==
  /\ [](phase # "idle" =>
          /\ (phase = "body") => (Len(stack) + 1 = Len(visited))
          /\ (Chain(visited[1]).fate = "cycles") => (phase = "body"))
  /\ [](HasRevisit(visited) => phase = "body")
  /\ ((phase # "idle" /\ Chain(visited[1]).fate # "cycles") ~> (phase = "idle"))

\* a directory whose next-offset is its own offset, entered again and again
C10_Witness ==
  /\ phase = "body"
  /\ Len(stack) >= 3
  /\ visited[1] = visited[2]
  /\ visited[2] = visited[3]
  /\ Chain(visited[1]).fate = "cycles"

====
